---- MODULE Spec2Model ----
(***************************************************************************)
(* Closure deduplication and notification engine of the Events cog         *)
(* (src/cogs/events.py): fetch_closures_from_api, check_closures (the      *)
(* periodic poll cycle), save_state / load_state and the subscriber        *)
(* commands monitorclosures / unmonitorclosures.                           *)
(*                                                                         *)
(* The cog runs on one asyncio event loop.  A coroutine runs without       *)
(* interruption between two awaits, so every action below is one such      *)
(* segment, and a command handler is interleaved with the poll cycle only  *)
(* where the cycle is suspended in an await (AtAwait).                     *)
(*                                                                         *)
(* Optional values (dict.get results, None) are sequences of length 0 or   *)
(* 1: <<>> is None / a missing key, <<v>> is the value v.                  *)
(***************************************************************************)
EXTENDS Integers, Sequences, FiniteSets, TLC

\* ------------------------------------------------------------------ bounds
NumChannels == 2   \* channel ids that commands and the state file may name
MaxOps == 3        \* invocations of check_closures plus commands handled

Channels == 1..NumChannels

\* --------------------------------------------------------- closure records
\* ClosureRecord as decoded from the API's JSON (the fields check_closures
\* reads).  A JSON value under timestamps.start / timestamps.end is an
\* integer, a string of digits, or something int() rejects.
IntTs(n) == [kind |-> "int", v |-> n]
StrTs(n) == [kind |-> "str", v |-> n]
BadTs == [kind |-> "bad", v |-> 0]

\* RecA and RecB are two valid events, RecBad has no 'timestamps'.
RecA == [status |-> <<"Closure Scheduled">>, type |-> <<"Primary Date">>,
         date |-> <<"d1">>, time |-> <<"t1">>,
         timestamps |-> <<[start |-> <<IntTs(10)>>, end |-> <<IntTs(20)>>]>>]
RecB == [status |-> <<"Possible Closure">>, type |-> <<"Primary Date">>,
         date |-> <<"d2">>, time |-> <<"t2">>,
         timestamps |-> <<[start |-> <<IntTs(30)>>, end |-> <<IntTs(40)>>]>>]
RecBad == [status |-> <<"Closure Scheduled">>, type |-> <<"Primary Date">>,
           date |-> <<"d3">>, time |-> <<"t3">>,
           timestamps |-> <<>>]

\* Variants of RecA: another date text, another time text, no status, the
\* status "?", no type, start as a string of digits, a start int() rejects,
\* no end; and two records whose date and status differ but join to the
\* same text around the separator.
RecDate == [RecA EXCEPT !.date = <<"d9">>]
RecTime == [RecA EXCEPT !.time = <<"t9">>]
RecNoStatus == [RecA EXCEPT !.status = <<>>]
RecQStatus == [RecA EXCEPT !.status = <<"?">>]
RecNoType == [RecA EXCEPT !.type = <<>>]
RecStrStart == [RecA EXCEPT !.timestamps = <<[start |-> <<StrTs(10)>>, end |-> <<IntTs(20)>>]>>]
RecBadStart == [RecA EXCEPT !.timestamps = <<[start |-> <<BadTs>>, end |-> <<IntTs(20)>>]>>]
RecNoEnd == [RecA EXCEPT !.timestamps = <<[start |-> <<IntTs(10)>>, end |-> <<>>]>>]
RecPipe1 == [RecA EXCEPT !.date = <<"d1|x">>, !.status = <<"y">>]
RecPipe2 == [RecA EXCEPT !.date = <<"d1">>, !.status = <<"x|y">>]

Records == { RecA, RecB, RecBad, RecDate, RecTime, RecNoStatus, RecQStatus, RecNoType,
             RecStrStart, RecBadStart, RecNoEnd, RecPipe1, RecPipe2 }

\* The JSON lists the upstream API may answer with.
Feeds == { <<>>, <<RecA>>, <<RecB>>, <<RecA, RecB>>, <<RecBad>>, <<RecA, RecStrStart>> }

\* dict.get(key, default)
Get(opt, default) == IF opt = <<>> THEN default ELSE opt[1]

\* events.py 1201-1206: int(start_ts) succeeds
IntConverts(ts) == ts.kind \in {"int", "str"}

\* events.py 1209: name_str, the six parts joined by "|"
NameStr(api_date, status, api_time_str, start_ts_int, end_ts_int, type_val) ==
    api_date \o "|" \o status \o "|" \o api_time_str \o "|" \o ToString(start_ts_int)
        \o "|" \o ToString(end_ts_int) \o "|" \o type_val

\* Mutant of GeneratedUuid: the name is built from status, start, end and
\* type only.
GeneratedUuid_FourFields(cl) ==
    IF cl.timestamps = <<>> THEN <<>>
    ELSE LET timestamps == cl.timestamps[1]
         IN  IF timestamps.start = <<>> \/ timestamps.end = <<>> THEN <<>>
             ELSE IF ~IntConverts(timestamps.start[1]) \/ ~IntConverts(timestamps.end[1])
             THEN <<>>
             ELSE << Get(cl.status, "?") \o "|" \o ToString(timestamps.start[1].v) \o "|"
                       \o ToString(timestamps.end[1].v) \o "|" \o Get(cl.type, "?") >>

\* events.py 1184-1212: the generated UUID of one API item, <<>> when the
\* item is skipped.  uuid5 is a collision-resistant hash of name_str under
\* the fixed CLOSURE_NAMESPACE: two names get the same UUID iff they are
\* the same string, so the UUID is modelled by the name string.
GeneratedUuid(cl) ==
    IF cl.timestamps = <<>> THEN <<>>
    ELSE LET timestamps == cl.timestamps[1]
             start_ts == timestamps.start
             end_ts == timestamps.end
             status == Get(cl.status, "?")
             type_val == Get(cl.type, "?")
             api_date == Get(cl.date, "?")
             api_time_str == Get(cl.time, "?")
         IN  IF start_ts = <<>> \/ end_ts = <<>> THEN <<>>
             ELSE IF ~IntConverts(start_ts[1]) \/ ~IntConverts(end_ts[1]) THEN <<>>
             ELSE << NameStr(api_date, status, api_time_str,
                             start_ts[1].v, end_ts[1].v, type_val) >>

\* events.py 1216: latest_generated_ids of a fetched list
LatestGeneratedIds(closures) ==
    { GeneratedUuid(closures[i])[1] :
        i \in { j \in DOMAIN closures : GeneratedUuid(closures[j]) # <<>> } }

IdA == GeneratedUuid(RecA)[1]


\* Mutants of IsNewClosure: the membership test dropped, or inverted.
IsNewClosure_Always(generated_uuid, seen) == TRUE
IsNewClosure_WhenSeen(generated_uuid, seen) == generated_uuid \in seen

\* events.py 1221: an item is new when its UUID is not in seen_closure_ids
IsNewClosure(generated_uuid, seen) == generated_uuid \notin seen

\* Mutant of NewClosuresToNotify: the loop over the items ends at the first
\* item that is skipped.
NewClosuresToNotify_StopsAtSkipped(closures, seen) ==
    LET F[i \in 0..Len(closures)] ==
            IF i = 0 THEN <<>>
            ELSE LET u == GeneratedUuid(closures[i])
                 IN  IF \E k \in 1..i : GeneratedUuid(closures[k]) = <<>>
                     THEN F[i - 1]
                     ELSE IF IsNewClosure(u[1], seen)
                     THEN Append(F[i - 1], <<u[1], closures[i]>>)
                     ELSE F[i - 1]
    IN  F[Len(closures)]

\* events.py 1180-1227: new_closures_to_notify, the (uuid, closure) pairs of
\* the items of the fetched list that have a UUID and are new, in list order
NewClosuresToNotify(closures, seen) ==
    LET F[i \in 0..Len(closures)] ==
            IF i = 0 THEN <<>>
            ELSE LET u == GeneratedUuid(closures[i])
                 IN  IF u # <<>> /\ IsNewClosure(u[1], seen)
                     THEN Append(F[i - 1], <<u[1], closures[i]>>)
                     ELSE F[i - 1]
    IN  F[Len(closures)]

\* ------------------------------------------------------------------ fetch
\* What the HTTP request of fetch_closures_from_api (242-247) can end in:
\* a JSON list, JSON that is not a list, or an exception.
HttpExceptions == {"timeout", "client_error", "json_decode_error", "other_error"}
HttpOutcomes == [kind : {"list"}, body : Feeds]
                    \cup { [kind |-> k, body |-> <<>>] : k \in {"nonlist"} \cup HttpExceptions }

\* Mutant of ClientTimeoutIsExceptionClass: the handlers of the fetch work.
ClientTimeoutIsExceptionClass_Yes == TRUE

\* events.py 258: the first handler of the try statement is
\* `except aiohttp.ClientTimeout:`.  aiohttp.ClientTimeout is the timeout
\* configuration class that line 243 instantiates, not an exception class.
\* Python evaluates the handlers in order for every exception raised in the
\* try body, and matching against a class that does not inherit from
\* BaseException raises TypeError; that TypeError leaves the function.
ClientTimeoutIsExceptionClass == FALSE

\* events.py 261-264 (and 269-272, 277-280, 285-288): the cache fallback
CacheFallback(cache) == IF cache # <<>> THEN cache ELSE <<>>

\* Mutant of FetchResult: JSON that is not a list falls back to the cache
\* like the exception handlers do.
FetchResult_NonListFallsBack(http, cache) ==
    IF http.kind = "list"
    THEN [raised |-> FALSE, value |-> http.body, cache |-> http.body, stored |-> TRUE]
    ELSE IF http.kind = "nonlist"
    THEN [raised |-> FALSE, value |-> cache, cache |-> cache, stored |-> FALSE]
    ELSE [raised |-> TRUE, value |-> <<>>, cache |-> cache, stored |-> FALSE]

\* Mutant of FetchResult: a fetch that fails empties the cache.
FetchResult_FailureClearsCache(http, cache) ==
    IF http.kind = "list"
    THEN [raised |-> FALSE, value |-> http.body, cache |-> http.body, stored |-> TRUE]
    ELSE IF http.kind = "nonlist"
    THEN [raised |-> FALSE, value |-> <<>>, cache |-> <<>>, stored |-> FALSE]
    ELSE [raised |-> TRUE, value |-> <<>>, cache |-> <<>>, stored |-> FALSE]

\* events.py 240-288: the result of fetch_closures_from_api for one HTTP
\* outcome: whether it raises, the list it returns, the cache afterwards and
\* whether the cache and the fetch time were written.
FetchResult(http, cache) ==
    IF http.kind = "list"
    THEN [raised |-> FALSE, value |-> http.body, cache |-> http.body, stored |-> TRUE]
    ELSE IF http.kind = "nonlist"
    THEN [raised |-> FALSE, value |-> <<>>, cache |-> cache, stored |-> FALSE]
    ELSE IF ClientTimeoutIsExceptionClass
    THEN [raised |-> FALSE, value |-> CacheFallback(cache), cache |-> cache, stored |-> FALSE]
    ELSE [raised |-> TRUE, value |-> <<>>, cache |-> cache, stored |-> FALSE]

\* ------------------------------------------------------------ persistence
\* The state file bot_state.json: missing, a complete JSON state, or a
\* truncated / partially written file.
FileMissing == [kind |-> "missing"]
FileEmpty == [kind |-> "empty"]
FilePartial == [kind |-> "partial"]
\* Files with valid JSON that load_state cannot take as it is: JSON that is
\* not an object, a 'monitoring_channels' with an entry int() rejects, and
\* a 'managed_closures' that is not a list beside valid other fields.
FileNotObject == [kind |-> "not_object"]
FileBadChannels == [kind |-> "bad_channels"]
FileBadManaged(channels, seen) ==
    [kind |-> "bad_managed", monitoring_channels |-> channels, seen_closure_ids |-> seen]
StateData(channels, seen, managed) ==
    [kind |-> "state", monitoring_channels |-> channels, seen_closure_ids |-> seen,
     managed_closures |-> managed]

\* events.py 185-192: what one run of _blocking_save_state leaves in the
\* file.  open(filename, 'w') truncates the file before json.dump writes.
BlockingSaveFailures == {"open_failed", "write_failed"}
\* Mutant of FileAfterSave: a write that succeeds leaves out the seen ids.
FileAfterSave_DropsSeen(file, data, outcome) ==
    CASE outcome = "written" -> [data EXCEPT !.seen_closure_ids = {}]
      [] outcome = "open_failed" -> file
      [] outcome = "write_failed" -> FilePartial

FileAfterSave(file, data, outcome) ==
    CASE outcome = "written" -> data
      [] outcome = "open_failed" -> file
      [] outcome = "write_failed" -> FilePartial

\* The state files the bot may find at startup.
InitFiles == { FileMissing, StateData({1}, {IdA}, <<>>) }

\* --------------------------------------------------------------- channels
\* What resolving one subscriber and checking its permissions gives
\* (1287-1294), and what channel.send can end in (1296-1313).
ResolveOutcomes == {"no_channel", "perms_raise", "no_perms", "can_send"}
SendOutcomes == {"sent", "Forbidden", "NotFound", "HTTPException", "Exception"}

VARIABLES
    monitoring_channels,        \* self.monitoring_channels
    seen_closure_ids,           \* self.seen_closure_ids
    cached_api_closures,        \* self._cached_api_closures
    last_api_fetch_time,        \* self._last_api_fetch_time: <<>> or <<time>>
    api_fetch_lock,             \* self._api_fetch_lock: "free" or its holder
    state_file,                 \* the content of bot_state.json
    cmd_writes,                 \* state_data of the save_state calls of commands in the executor
    task,                       \* the tasks.loop object of check_closures
    loaded,                     \* load_state: the result of _blocking_load_state
    pc,                         \* where check_closures is
    latest_closures,            \* locals of check_closures
    new_closures_to_notify,
    processed_successfully_ids,
    ev,                         \* index of the event of the notification loop
    todo,                       \* channels of list(self.monitoring_channels) not yet reached
    cur_channel,                \* the channel the cycle is sending to
    channels_to_keep,
    send_success_count,
    state_data,                 \* state_data of the cycle's save_state call in the executor
    now,                        \* number of invocations of check_closures so far (the clock)
    cmds,                       \* number of commands handled so far
    h_received,                 \* history: <<channel, uuid>>: a send of uuid to channel succeeded in this cycle
    h_sent,                     \* history: UUIDs with a send that succeeded in this cycle
    h_tried,                    \* history: UUIDs with a send call in this cycle
    h_fetch,                    \* history: the last call of fetch_closures_from_api
    h_prev,                     \* history: summary of the last finished cycle
    h_delivered,                \* history: UUIDs ever sent successfully
    h_loaded,                   \* history: UUIDs loaded from the state file
    h_start,                    \* history: seen_closure_ids when this cycle began
    h_missed,                   \* history: <<uuid, valid>>: uuid was in seen_closure_ids when
                                \*   a cycle fetched a JSON list without it; valid tells
                                \*   whether that list had an item with a UUID
    h_reappeared,               \* history: the pairs of h_missed whose uuid is in this
                                \*   cycle's fetched list
    ready,                      \* the host bot has reported ready (wait_until_ready returns)
    rc,                         \* where the roadclosure command is
    overdue,                    \* the interval of the loop elapsed while the last cycle ran
    h_loads,                    \* history: number of load_state calls that have completed
    h_perm_failed,              \* history: channels that failed permanently in the
                                \*   dispatch of the current closure
    managed_closures,           \* self.managed_closures
    uuid4_count,                \* number of ids uuid.uuid4() has given to managed closures
    edit,                       \* editroadclosure: <<>> or <<[closure_id, target_index, edited_closure]>>
    rc_local,                   \* roadclosure: <<>> or its locals while it shows the list
    h_failed                    \* history: <<>> or the last write that failed

vars == << monitoring_channels, seen_closure_ids, cached_api_closures,
           last_api_fetch_time, api_fetch_lock, state_file, cmd_writes, task,
           loaded, pc, latest_closures, new_closures_to_notify,
           processed_successfully_ids, ev, todo, cur_channel, channels_to_keep,
           send_success_count, state_data, now, cmds, h_sent, h_received, h_tried, h_fetch,
           h_prev, h_delivered, h_loaded, h_start, h_missed, h_reappeared,
           ready, rc, overdue, h_loads, h_perm_failed,
           managed_closures, uuid4_count, edit, rc_local, h_failed >>

managed_vars == << managed_closures, uuid4_count, edit >>

env_vars == << ready, rc, overdue >>
cache_vars == << cached_api_closures, last_api_fetch_time >>
cycle_locals == << latest_closures, new_closures_to_notify, processed_successfully_ids,
                   ev, todo, cur_channel, channels_to_keep, send_success_count >>
hist_vars == << h_sent, h_received, h_tried, h_fetch, h_prev, h_delivered, h_loaded, h_start,
                h_missed, h_reappeared >>

NoFetch == [kind |-> "none", cache_before |-> <<>>, raised |-> FALSE, value |-> <<>>]
NoPrev == [outcome |-> "none", fetch |-> NoFetch, latest |-> <<>>, new |-> {},
           sent |-> {}, seen_after |-> {}]

\* events.py 65-81: the cog after __init__ (load_state_initial sets the
\* empty state); the tasks.loop of check_closures exists and is not started.
\* What __init__ (65-81) and a loop that is not running leave in everything
\* but the state itself, the cache, the file and the position of the loop.
Quiet ==
    /\ last_api_fetch_time = <<>>
    /\ api_fetch_lock = "free"
    /\ cmd_writes = {}
    /\ loaded = <<>>
    /\ new_closures_to_notify = <<>>
    /\ processed_successfully_ids = {}
    /\ ev = 0
    /\ todo = {}
    /\ cur_channel = 0
    /\ channels_to_keep = {}
    /\ send_success_count = 0
    /\ state_data = <<>>
    /\ now = 0
    /\ cmds = 0
    /\ h_sent = {}
    /\ h_received = {}
    /\ h_tried = {}
    /\ h_fetch = NoFetch
    /\ h_prev = NoPrev
    /\ h_delivered = {}
    /\ h_loaded = {}
    /\ h_start = {}
    /\ h_missed = {}
    /\ h_reappeared = {}
    /\ rc = "idle"
    /\ overdue = FALSE
    /\ h_loads = 0
    /\ h_perm_failed = {}
    /\ uuid4_count = 0
    /\ edit = <<>>
    /\ rc_local = <<>>
    /\ h_failed = <<>>

Init ==
    /\ Quiet
    /\ monitoring_channels = {}
    /\ seen_closure_ids = {}
    /\ managed_closures = <<>>
    /\ cached_api_closures = <<>>
    /\ state_file \in InitFiles
    /\ task = "unstarted"
    /\ ready = FALSE
    /\ pc = "idle"
    /\ latest_closures = <<>>

\* The cycle is suspended in an await (or not running): the event loop may
\* run a command handler or finish an executor job.
AtAwait == pc \in {"idle", "wait_lock", "http", "send", "save_removed", "save_seen",
                   "save_prune", "cancelled"}

\* --------------------------------------------------- task start and load
\* check_closures.start() of the tasks.loop (1155).  No code of the cog
\* calls it (see __init__, 65-81, and on_ready, 221-228); it is the
\* operation of the loop object that whoever holds the cog can invoke.
StartTask ==
    /\ task = "unstarted"
    /\ task' = "before_loop"
    /\ UNCHANGED << managed_vars, rc_local, h_failed, env_vars, h_loads, h_perm_failed, monitoring_channels, seen_closure_ids, cache_vars, api_fetch_lock,
                    state_file, cmd_writes, loaded, pc, cycle_locals, state_data, now,
                    cmds, hist_vars >>

\* events.py 221-228: the host bot reports ready: on_ready fires (it only
\* logs) and bot.wait_until_ready() returns from then on.
on_ready ==
    /\ ~ready
    /\ ready' = TRUE
    /\ UNCHANGED << managed_vars, rc_local, h_failed, monitoring_channels, seen_closure_ids, cache_vars, api_fetch_lock,
                    state_file, cmd_writes, task, loaded, pc, cycle_locals, state_data,
                    now, cmds, hist_vars, rc, overdue, h_loads, h_perm_failed >>

\* events.py 1387-1394 and 86-95: before_check_closures, after the bot is
\* ready, calls load_state, which reads the file in the executor.
BeforeLoopRead ==
    /\ task = "before_loop"
    /\ ready
    /\ task' = "loading"
    /\ loaded' = <<state_file>>
    /\ UNCHANGED << managed_vars, rc_local, h_failed, env_vars, h_loads, h_perm_failed, monitoring_channels, seen_closure_ids, cache_vars, api_fetch_lock,
                    state_file, cmd_writes, pc, cycle_locals, state_data, now,
                    cmds, hist_vars >>

\* Mutant of LoadedState: a file that cannot be processed leaves the state
\* as it is.
LoadedState_KeepsOnError(file, channels, seen, managed) ==
    IF file.kind = "state"
    THEN [monitoring_channels |-> file.monitoring_channels,
          seen_closure_ids |-> file.seen_closure_ids,
          managed_closures |-> file.managed_closures, reset_cache |-> FALSE]
    ELSE [monitoring_channels |-> channels, seen_closure_ids |-> seen,
          managed_closures |-> managed, reset_cache |-> FALSE]

\* events.py 98-140 and 144-157: the state load_state sets from what was
\* read, given the state in memory.  A missing or empty file gives None; a
\* truncated file, JSON that is not an object and a field that cannot be
\* converted raise in the try block: all of them set the empty state and
\* reset the cache.  A 'managed_closures' that is not a list resets
\* managed_closures only (120-125).
LoadedState(file, channels, seen, managed) ==
    CASE file.kind = "state" ->
            [monitoring_channels |-> file.monitoring_channels,
             seen_closure_ids |-> file.seen_closure_ids,
             managed_closures |-> file.managed_closures, reset_cache |-> FALSE]
      [] file.kind = "bad_managed" ->
            [monitoring_channels |-> file.monitoring_channels,
             seen_closure_ids |-> file.seen_closure_ids,
             managed_closures |-> <<>>, reset_cache |-> FALSE]
      [] OTHER ->
            [monitoring_channels |-> {}, seen_closure_ids |-> {},
             managed_closures |-> <<>>, reset_cache |-> TRUE]

LoadStateDone ==
    /\ task = "loading"
    /\ LET st == LoadedState(loaded[1], monitoring_channels, seen_closure_ids,
                             managed_closures)
       IN  /\ monitoring_channels' = st.monitoring_channels
           /\ seen_closure_ids' = st.seen_closure_ids
           /\ managed_closures' = st.managed_closures
           /\ cached_api_closures' = IF st.reset_cache THEN <<>> ELSE cached_api_closures
           /\ last_api_fetch_time' = IF st.reset_cache THEN <<>> ELSE last_api_fetch_time
           /\ h_loaded' = st.seen_closure_ids
    /\ task' = "running"
    /\ loaded' = <<>>
    /\ h_loads' = h_loads + 1
    /\ UNCHANGED << uuid4_count, edit, rc_local, h_failed, env_vars, h_perm_failed,
                    api_fetch_lock, state_file, cmd_writes, pc, cycle_locals, state_data,
                    now, cmds, h_sent, h_received, h_tried, h_fetch, h_prev, h_delivered, h_start,
                    h_missed, h_reappeared >>

\* ------------------------------------------------------------- poll cycle
\* Mutants of MayInvoke: the first invocation does not wait for
\* before_check_closures to finish; an invocation starts while the previous
\* one has not returned.
MayInvoke_BeforeLoaded(t, p) == t \in {"before_loop", "loading", "running"} /\ p = "idle"
MayInvoke_Overlapping(t, p) == t = "running"

\* events.py 1155 and 1387: tasks.loop invokes check_closures when its
\* before_loop hook has finished, and again only after the previous
\* invocation has returned (the loop awaits the coroutine, then sleeps).
MayInvoke(t, p) == t = "running" /\ p = "idle"

\* Mutant of SkipsCycle: the cycle goes on with no monitoring channel.
SkipsCycle_Never(channels) == FALSE

\* events.py 1159: `not self.monitoring_channels`
SkipsCycle(channels) == channels = {}

\* Mutant of LockIsFree: the lock lets everyone in.
LockIsFree_Ignored(lock) == TRUE

\* events.py 240: `async with self._api_fetch_lock` goes on without
\* suspending when the lock is free, and waits otherwise
LockIsFree(lock) == lock = "free"

\* events.py 1155-1166 and 240-243: the periodic trigger invokes
\* check_closures; with no monitoring channel it returns at once, else it
\* calls the fetch, which takes the lock when it is free and sends the HTTP
\* request, and waits for the lock otherwise.
Invocation ==
    /\ MayInvoke(task, pc)
    /\ IF SkipsCycle(monitoring_channels)
       THEN /\ pc' = "return"
            /\ UNCHANGED api_fetch_lock
       ELSE IF LockIsFree(api_fetch_lock)
       THEN /\ api_fetch_lock' = "check_closures"
            /\ pc' = "http"
       ELSE /\ pc' = "wait_lock"
            /\ UNCHANGED api_fetch_lock
    /\ overdue' = FALSE
    /\ h_sent' = {}
    /\ h_received' = {}
    /\ h_tried' = {}
    /\ h_start' = seen_closure_ids
    /\ UNCHANGED << managed_vars, rc_local, h_failed, ready, rc, h_loads, h_perm_failed, monitoring_channels, seen_closure_ids, cache_vars,
                    state_file, cmd_writes, task, loaded, cycle_locals, state_data,
                    cmds, h_fetch, h_prev, h_delivered, h_loaded, h_missed,
                    h_reappeared >>

\* The invocations are counted: `now` is the clock of the model.
Tick ==
    /\ Invocation
    /\ now + cmds < MaxOps
    /\ now' = now + 1

\* events.py 240: the cycle's fetch gets the lock that roadclosure released
AcquireLock ==
    /\ pc = "wait_lock"
    /\ LockIsFree(api_fetch_lock)
    /\ api_fetch_lock' = "check_closures"
    /\ pc' = "http"
    /\ UNCHANGED << managed_vars, rc_local, h_failed, env_vars, h_loads, h_perm_failed, monitoring_channels,
                    seen_closure_ids, cache_vars, state_file, cmd_writes, task, loaded,
                    cycle_locals, state_data, now, cmds, hist_vars >>

\* events.py 241-288 and 1166-1230: the HTTP request ends, the fetch
\* returns or raises (the lock is released either way), and the cycle goes
\* on to the UUID generation without another await.
FetchDone ==
    /\ pc = "http"
    /\ \E http \in HttpOutcomes :
         LET r == FetchResult(http, cached_api_closures)
         IN  /\ cached_api_closures' = r.cache
             /\ last_api_fetch_time' = IF r.stored THEN <<now>> ELSE last_api_fetch_time
             /\ h_fetch' = [kind |-> http.kind, cache_before |-> cached_api_closures,
                            raised |-> r.raised, value |-> r.value]
             /\ IF r.raised
                THEN /\ pc' = "raise"
                     /\ UNCHANGED << latest_closures, new_closures_to_notify, h_missed,
                                     h_reappeared >>
                ELSE /\ latest_closures' = r.value
                     /\ new_closures_to_notify' =
                            NewClosuresToNotify(r.value, seen_closure_ids)
                     /\ pc' = IF r.value = <<>> THEN "return" ELSE "next_event"
                     /\ h_reappeared' =
                            { m \in h_missed : m[1] \in LatestGeneratedIds(r.value) }
                     /\ h_missed' =
                            { m \in h_missed : m[1] \notin LatestGeneratedIds(r.value) }
                            \cup { <<u, LatestGeneratedIds(r.value) # {}>> :
                                     u \in IF http.kind = "list"
                                           THEN seen_closure_ids \ LatestGeneratedIds(r.value)
                                           ELSE {} }
    /\ api_fetch_lock' = "free"
    /\ processed_successfully_ids' = {}
    /\ ev' = 0
    /\ UNCHANGED << managed_vars, rc_local, h_failed, env_vars, h_loads, h_perm_failed, monitoring_channels, seen_closure_ids, state_file, cmd_writes, task,
                    loaded, todo, cur_channel, channels_to_keep, send_success_count,
                    state_data, now, cmds, h_sent, h_received, h_tried, h_prev, h_delivered,
                    h_loaded, h_start >>

\* events.py 1238-1286: the next new closure; its embed is built and the
\* channel loop starts over a copy of monitoring_channels.
NextEvent ==
    /\ pc = "next_event"
    /\ IF ev < Len(new_closures_to_notify)
       THEN /\ ev' = ev + 1
            /\ todo' = monitoring_channels
            /\ channels_to_keep' = {}
            /\ send_success_count' = 0
            /\ pc' = "next_channel"
       ELSE /\ pc' = "state_update"
            /\ UNCHANGED << ev, todo, channels_to_keep, send_success_count >>
    /\ h_perm_failed' = {}
    /\ UNCHANGED << managed_vars, rc_local, h_failed, env_vars, h_loads, monitoring_channels, seen_closure_ids, cache_vars, api_fetch_lock,
                    state_file, cmd_writes, task, loaded, latest_closures,
                    new_closures_to_notify, processed_successfully_ids, cur_channel,
                    state_data, now, cmds, hist_vars >>

generated_uuid == new_closures_to_notify[ev][1]

\* events.py 1286-1294 and 1315-1317: the next channel of the copy is
\* resolved and its permissions are checked.  An exception of the
\* permission check is not inside the try of the send (1296): it is caught
\* by the handler of the whole event (1343).
NextChannel ==
    /\ pc = "next_channel"
    /\ todo # {}
    /\ \E channel_id \in todo, res \in ResolveOutcomes :
         /\ todo' = todo \ {channel_id}
         /\ h_perm_failed' = IF res = "no_channel" THEN h_perm_failed \cup {channel_id}
                              ELSE h_perm_failed
         /\ CASE res = "no_channel" ->
                   /\ pc' = "next_channel"
                   /\ UNCHANGED << channels_to_keep, cur_channel, h_tried >>
              [] res = "perms_raise" ->
                   /\ pc' = "event_except"
                   /\ UNCHANGED << channels_to_keep, cur_channel, h_tried >>
              [] res = "no_perms" ->
                   /\ pc' = "next_channel"
                   /\ channels_to_keep' = channels_to_keep \cup {channel_id}
                   /\ UNCHANGED << cur_channel, h_tried >>
              [] res = "can_send" ->
                   /\ pc' = "send"
                   /\ cur_channel' = channel_id
                   /\ h_tried' = h_tried \cup {generated_uuid}
                   /\ UNCHANGED channels_to_keep
    /\ UNCHANGED << managed_vars, rc_local, h_failed, env_vars, h_loads, monitoring_channels, seen_closure_ids, cache_vars, api_fetch_lock,
                    state_file, cmd_writes, task, loaded, latest_closures,
                    new_closures_to_notify, processed_successfully_ids, ev,
                    send_success_count, state_data, now, cmds, h_sent, h_received, h_fetch, h_prev,
                    h_delivered, h_loaded, h_start, h_missed, h_reappeared >>

\* events.py 1302-1313: whether a channel whose send ended in `outcome` is
\* appended to channels_to_keep
KeepAfterSend(outcome) == outcome \notin {"Forbidden", "NotFound"}

\* events.py 1296-1313: await channel.send(embed=embed) ends
SendDone ==
    /\ pc = "send"
    /\ \E outcome \in SendOutcomes :
         /\ send_success_count' =
                IF outcome = "sent" THEN send_success_count + 1 ELSE send_success_count
         /\ channels_to_keep' =
                IF KeepAfterSend(outcome) THEN channels_to_keep \cup {cur_channel}
                ELSE channels_to_keep
         /\ h_sent' = IF outcome = "sent" THEN h_sent \cup {generated_uuid}
                      ELSE h_sent
         /\ h_received' = IF outcome = "sent"
                          THEN h_received \cup {<<cur_channel, generated_uuid>>}
                          ELSE h_received
         /\ h_delivered' = IF outcome = "sent" THEN h_delivered \cup {generated_uuid}
                           ELSE h_delivered
         /\ h_perm_failed' = IF KeepAfterSend(outcome) THEN h_perm_failed
                              ELSE h_perm_failed \cup {cur_channel}
    /\ pc' = "next_channel"
    /\ cur_channel' = 0
    /\ UNCHANGED << managed_vars, rc_local, h_failed, env_vars, h_loads, monitoring_channels, seen_closure_ids, cache_vars, api_fetch_lock,
                    state_file, cmd_writes, task, loaded, latest_closures,
                    new_closures_to_notify, processed_successfully_ids, ev, todo,
                    state_data, now, cmds, h_tried, h_fetch, h_prev, h_loaded, h_start,
                    h_missed, h_reappeared >>

\* events.py 1320-1330: after the channel loop, monitoring_channels is
\* replaced by channels_to_keep when that removes a channel, and saved.
AfterChannelLoop ==
    /\ pc = "next_channel"
    /\ todo = {}
    /\ IF monitoring_channels \ channels_to_keep # {}
       THEN /\ monitoring_channels' = channels_to_keep
            /\ state_data' = <<StateData(channels_to_keep, seen_closure_ids, managed_closures)>>
            /\ pc' = "save_removed"
       ELSE /\ pc' = "mark"
            /\ UNCHANGED << monitoring_channels, state_data >>
    /\ UNCHANGED << managed_vars, rc_local, h_failed, env_vars, h_loads, h_perm_failed, seen_closure_ids, cache_vars, api_fetch_lock, state_file, cmd_writes,
                    task, loaded, cycle_locals, now, cmds, hist_vars >>

\* Mutant of MarkProcessed: the UUID is marked whatever the send count.
MarkProcessed_Always(processed, uuid, count) == processed \cup {uuid}

\* events.py 1333-1340: the UUID counts as processed when at least one send
\* succeeded
MarkProcessed(processed, uuid, count) ==
    IF count > 0 THEN processed \cup {uuid} ELSE processed

Mark ==
    /\ pc = "mark"
    /\ processed_successfully_ids' =
           MarkProcessed(processed_successfully_ids, generated_uuid, send_success_count)
    /\ pc' = "next_event"
    /\ UNCHANGED << managed_vars, rc_local, h_failed, env_vars, h_loads, h_perm_failed, monitoring_channels, seen_closure_ids, cache_vars, api_fetch_lock,
                    state_file, cmd_writes, task, loaded, latest_closures,
                    new_closures_to_notify, ev, todo, cur_channel, channels_to_keep,
                    send_success_count, state_data, now, cmds, hist_vars >>

\* events.py 1343-1344: the handler of the event's try block logs the
\* exception; the rest of the event's block (1296-1340) has been skipped.
EventExcept ==
    /\ pc = "event_except"
    /\ pc' = "next_event"
    /\ todo' = {}
    /\ UNCHANGED << managed_vars, rc_local, h_failed, env_vars, h_loads, h_perm_failed, monitoring_channels, seen_closure_ids, cache_vars, api_fetch_lock,
                    state_file, cmd_writes, task, loaded, latest_closures,
                    new_closures_to_notify, processed_successfully_ids, ev, cur_channel,
                    channels_to_keep, send_success_count, state_data, now, cmds,
                    hist_vars >>

\* events.py 1347-1357: the processed UUIDs are added to seen_closure_ids
\* and the state is saved
StateUpdate ==
    /\ pc = "state_update"
    /\ IF processed_successfully_ids # {}
       THEN /\ seen_closure_ids' = seen_closure_ids \cup processed_successfully_ids
            /\ state_data' = <<StateData(monitoring_channels, seen_closure_ids', managed_closures)>>
            /\ pc' = "save_seen"
       ELSE /\ pc' = "prune"
            /\ UNCHANGED << seen_closure_ids, state_data >>
    /\ UNCHANGED << managed_vars, rc_local, h_failed, env_vars, h_loads, h_perm_failed, monitoring_channels, cache_vars, api_fetch_lock, state_file,
                    cmd_writes, task, loaded, cycle_locals, now, cmds, hist_vars >>

\* Mutant of PrunedSeen: the intersection is left out.
PrunedSeen_Never(seen, latest_generated_ids) == seen

\* events.py 1366-1370: seen_closure_ids after the pruning step
PrunedSeen(seen, latest_generated_ids) ==
    IF latest_generated_ids # {} THEN seen \cap latest_generated_ids ELSE seen

\* events.py 1366-1384: pruning, saved when it removed something
Prune ==
    /\ pc = "prune"
    /\ seen_closure_ids' = PrunedSeen(seen_closure_ids, LatestGeneratedIds(latest_closures))
    /\ IF Cardinality(seen_closure_ids') < Cardinality(seen_closure_ids)
       THEN /\ state_data' = <<StateData(monitoring_channels, seen_closure_ids', managed_closures)>>
            /\ pc' = "save_prune"
       ELSE /\ pc' = "return"
            /\ UNCHANGED state_data
    /\ UNCHANGED << managed_vars, rc_local, h_failed, env_vars, h_loads, h_perm_failed, monitoring_channels, cache_vars, api_fetch_lock, state_file,
                    cmd_writes, task, loaded, cycle_locals, now, cmds, hist_vars >>

\* events.py 160-192: the executor job of the cycle's save_state ends in
\* `outcome`; save_state catches its exception (180), and the cycle goes on.
CycleSaveEnds(outcome) ==
    /\ pc \in {"save_removed", "save_seen", "save_prune"}
    /\ state_file' = FileAfterSave(state_file, state_data[1], outcome)
    /\ h_failed' = IF outcome = "written" THEN h_failed
                   ELSE <<[snapshot |-> state_data[1], file_before |-> state_file]>>
    /\ state_data' = <<>>
    /\ pc' = CASE pc = "save_removed" -> "mark"
               [] pc = "save_seen" -> "prune"
               [] pc = "save_prune" -> "return"
    /\ UNCHANGED << managed_vars, rc_local, env_vars, h_loads, h_perm_failed, monitoring_channels, seen_closure_ids, cache_vars, api_fetch_lock,
                    cmd_writes, task, loaded, cycle_locals, now, cmds, hist_vars >>

CycleSaveDone == CycleSaveEnds("written")
CycleSaveFails == \E outcome \in BlockingSaveFailures : CycleSaveEnds(outcome)

\* check_closures returns, or an exception leaves it: an exception that is
\* not one the loop retries ends the task of the tasks.loop (1155).  The
\* invocation may have taken longer than the interval of the loop
\* (seconds=30): the next one is then overdue.
CycleEnds ==
    /\ pc \in {"return", "raise"}
    /\ pc' = "idle"
    /\ task' = IF pc = "raise" THEN "failed" ELSE task
    /\ h_prev' = [outcome |-> IF pc = "raise" THEN "raised" ELSE "returned",
                  fetch |-> h_fetch,
                  latest |-> latest_closures,
                  new |-> { new_closures_to_notify[i][1] : i \in DOMAIN new_closures_to_notify },
                  sent |-> h_sent,
                  seen_after |-> seen_closure_ids]
    /\ latest_closures' = <<>>
    /\ new_closures_to_notify' = <<>>
    /\ processed_successfully_ids' = {}
    /\ ev' = 0
    /\ todo' = {}
    /\ channels_to_keep' = {}
    /\ send_success_count' = 0
    /\ h_fetch' = NoFetch
    /\ h_reappeared' = {}
    /\ overdue' \in BOOLEAN
    /\ UNCHANGED << managed_vars, rc_local, h_failed, ready, rc, h_loads, h_perm_failed, monitoring_channels, seen_closure_ids, cache_vars, api_fetch_lock,
                    state_file, cmd_writes, loaded, cur_channel, state_data, now, cmds,
                    h_sent, h_received, h_tried, h_delivered, h_loaded, h_start, h_missed >>

\* events.py 210-217: cog_unload calls check_closures.cancel(), which
\* cancels the task of the loop at once: CancelledError is raised at the
\* await the invocation (or before_check_closures) is suspended in, and no
\* handler of check_closures catches it.  The lock the fetch holds is
\* released (async with); a write already handed to the executor still
\* runs.  The commands of the cog are gone with it; those already running
\* go on.
cog_unload ==
    /\ AtAwait
    /\ task \in {"before_loop", "loading", "running"}
    /\ task' = "cancelled"
    /\ pc' = IF pc = "idle" THEN "idle" ELSE "cancelled"
    /\ api_fetch_lock' = IF api_fetch_lock = "check_closures" THEN "free" ELSE api_fetch_lock
    /\ cmd_writes' = cmd_writes \cup { state_data[i] : i \in DOMAIN state_data }
    /\ state_data' = <<>>
    /\ loaded' = <<>>
    /\ latest_closures' = <<>>
    /\ new_closures_to_notify' = <<>>
    /\ processed_successfully_ids' = {}
    /\ ev' = 0
    /\ todo' = {}
    /\ channels_to_keep' = {}
    /\ send_success_count' = 0
    /\ h_fetch' = NoFetch
    /\ h_reappeared' = {}
    /\ UNCHANGED << managed_vars, rc_local, h_failed, env_vars, h_loads, h_perm_failed,
                    monitoring_channels, seen_closure_ids, cache_vars, state_file,
                    cur_channel, now, cmds, h_sent, h_received, h_tried, h_prev, h_delivered,
                    h_loaded, h_start, h_missed >>

\* --------------------------------------------------------------- commands
\* events.py 507-523: monitorclosures adds the channel and calls save_state,
\* whose executor job gets the state_data built at the call (164-169).
monitor_closures ==
    /\ AtAwait
    /\ task # "cancelled"
    /\ now + cmds < MaxOps
    /\ \E target_channel \in Channels \ monitoring_channels :
         /\ monitoring_channels' = monitoring_channels \cup {target_channel}
         /\ cmd_writes' = cmd_writes \cup {StateData(monitoring_channels', seen_closure_ids, managed_closures)}
         /\ h_perm_failed' = h_perm_failed \ {target_channel}
    /\ cmds' = cmds + 1
    /\ UNCHANGED << managed_vars, rc_local, h_failed, env_vars, h_loads, seen_closure_ids, cache_vars, api_fetch_lock, state_file, task, loaded,
                    pc, cycle_locals, state_data, now, hist_vars >>

\* events.py 538-544: unmonitorclosures removes the channel and calls save_state
unmonitor_closures ==
    /\ AtAwait
    /\ task # "cancelled"
    /\ now + cmds < MaxOps
    /\ \E target_channel \in monitoring_channels :
         /\ monitoring_channels' = monitoring_channels \ {target_channel}
         /\ cmd_writes' = cmd_writes \cup {StateData(monitoring_channels', seen_closure_ids, managed_closures)}
    /\ cmds' = cmds + 1
    /\ UNCHANGED << managed_vars, rc_local, h_failed, env_vars, h_loads, h_perm_failed, seen_closure_ids, cache_vars, api_fetch_lock, state_file, task, loaded,
                    pc, cycle_locals, state_data, now, hist_vars >>

\* The clock readings roadclosure may get from datetime.now() (353)
Times == {15, 20, 25}

\* Mutant of ActiveManaged: a closure that ends at the current time is shown.
ActiveManaged_IncludesEndingNow(managed, current_timestamp) ==
    LET active(c) == c.end # <<>> /\ c.end[1].kind = "int" /\ c.end[1].v >= current_timestamp
    IN  SelectSeq(managed, active)

\* events.py 354-358: active_managed_closures, the managed closures whose
\* timestamps.end is an int greater than current_timestamp
ActiveManaged(managed, current_timestamp) ==
    LET active(c) == c.end # <<>> /\ c.end[1].kind = "int" /\ c.end[1].v > current_timestamp
    IN  SelectSeq(managed, active)

\* The locals of one roadclosure invocation
RcLocal(force_fetch, cache_is_stale) ==
    [force_fetch |-> force_fetch, cache_is_stale |-> cache_is_stale,
     attempted |-> FALSE, failed |-> FALSE, raised |-> FALSE, warned |-> FALSE,
     closures_from_api |-> <<>>, from_cache |-> FALSE,
     current_timestamp |-> 0, active_managed_closures |-> <<>>]

\* events.py 352-360: the displayed list is put together from
\* closures_from_api and the active managed closures
Combined(local, closures_from_api, from_cache, current_timestamp) ==
    [local EXCEPT !.closures_from_api = closures_from_api,
                  !.from_cache = from_cache,
                  !.current_timestamp = current_timestamp,
                  !.active_managed_closures =
                       ActiveManaged(managed_closures, current_timestamp)]

\* events.py 319-350: roadclosure fetches when forced, when the cache is
\* older than five minutes or was never filled, or when it is empty, and
\* shows the cache otherwise.  The fetch takes the lock when it is free and
\* waits for it otherwise (240).
road_closure ==
    /\ AtAwait
    /\ task # "cancelled"
    /\ rc = "idle"
    /\ now + cmds < MaxOps
    /\ cmds' = cmds + 1
    /\ \E force_fetch \in BOOLEAN, older_than_5_minutes \in BOOLEAN :
         LET cache_is_stale == last_api_fetch_time = <<>> \/ older_than_5_minutes
             local == RcLocal(force_fetch, cache_is_stale)
         IN  IF force_fetch \/ cache_is_stale \/ cached_api_closures = <<>>
             THEN /\ rc_local' = <<[local EXCEPT !.attempted = TRUE]>>
                  /\ IF LockIsFree(api_fetch_lock)
                     THEN /\ api_fetch_lock' = "road_closure"
                          /\ rc' = "http"
                     ELSE /\ rc' = "wait_lock"
                          /\ UNCHANGED api_fetch_lock
             ELSE /\ \E current_timestamp \in Times :
                       rc_local' = <<Combined(local, cached_api_closures, TRUE,
                                              current_timestamp)>>
                  /\ rc' = "show"
                  /\ UNCHANGED api_fetch_lock
    /\ UNCHANGED << managed_vars, h_failed, ready, overdue, h_loads, h_perm_failed, monitoring_channels,
                    seen_closure_ids, cache_vars, state_file, cmd_writes, task, loaded,
                    pc, cycle_locals, state_data, now, hist_vars >>

\* events.py 240: the fetch of roadclosure gets the lock the cycle released
RoadClosureAcquireLock ==
    /\ AtAwait
    /\ rc = "wait_lock"
    /\ LockIsFree(api_fetch_lock)
    /\ api_fetch_lock' = "road_closure"
    /\ rc' = "http"
    /\ UNCHANGED << managed_vars, rc_local, h_failed, ready, overdue, h_loads, h_perm_failed, monitoring_channels,
                    seen_closure_ids, cache_vars, state_file, cmd_writes, task, loaded,
                    pc, cycle_locals, state_data, now, cmds, hist_vars >>

\* events.py 340: the condition under which roadclosure sends the warning
WarnsUser(closures_from_api, cache_is_stale, cache) ==
    closures_from_api = <<>> /\ (cache_is_stale \/ cache = <<>>)

\* events.py 241-288 and 339-360: the HTTP request of roadclosure's fetch
\* ends and the lock is released.  An exception of the fetch leaves the
\* command (it goes to on_command_error); otherwise the command sends the
\* warning (342), or puts the displayed list together.
RoadClosureFetchDone ==
    /\ AtAwait
    /\ rc = "http"
    /\ \E http \in HttpOutcomes :
         LET r == FetchResult(http, cached_api_closures)
             local == [rc_local[1] EXCEPT !.failed = http.kind # "list",
                                          !.raised = r.raised]
         IN  /\ cached_api_closures' = r.cache
             /\ last_api_fetch_time' = IF r.stored THEN <<now>> ELSE last_api_fetch_time
             /\ IF r.raised
                THEN /\ rc' = "error"
                     /\ rc_local' = <<local>>
                ELSE IF WarnsUser(r.value, local.cache_is_stale, r.cache)
                THEN /\ rc' = "warn"
                     /\ rc_local' = <<[local EXCEPT !.warned = TRUE]>>
                ELSE /\ rc' = "show"
                     /\ \E current_timestamp \in Times :
                          rc_local' = <<Combined(local, r.value,
                                                 http.kind # "list" /\ r.value # <<>>,
                                                 current_timestamp)>>
    /\ api_fetch_lock' = "free"
    /\ UNCHANGED << managed_vars, h_failed, ready, overdue, h_loads, h_perm_failed, monitoring_channels,
                    seen_closure_ids, state_file, cmd_writes, task, loaded, pc,
                    cycle_locals, state_data, now, cmds, hist_vars >>

\* events.py 342-343 and 352-360: the warning was sent; the command takes
\* the cache as it is now and puts the displayed list together.
RoadClosureWarned ==
    /\ AtAwait
    /\ rc = "warn"
    /\ \E current_timestamp \in Times :
         rc_local' = <<Combined(rc_local[1], cached_api_closures, TRUE, current_timestamp)>>
    /\ rc' = "show"
    /\ UNCHANGED << managed_vars, h_failed, ready, overdue, h_loads, h_perm_failed, monitoring_channels,
                    seen_closure_ids, cache_vars, api_fetch_lock, state_file, cmd_writes,
                    task, loaded, pc, cycle_locals, state_data, now, cmds, hist_vars >>

\* events.py 365-470: the embed with the displayed list was sent, or
\* on_command_error has dealt with the exception: the invocation is over.
RoadClosureEnds ==
    /\ AtAwait
    /\ rc \in {"show", "error"}
    /\ rc' = "idle"
    /\ rc_local' = <<>>
    /\ UNCHANGED << managed_vars, h_failed, ready, overdue, h_loads, h_perm_failed, monitoring_channels,
                    seen_closure_ids, cache_vars, api_fetch_lock, state_file, cmd_writes,
                    task, loaded, pc, cycle_locals, state_data, now, cmds, hist_vars >>

\* events.py 175-192: the executor job of a command's save_state ends in `outcome`
CommandSaveEnds(outcome) ==
    /\ AtAwait
    /\ \E w \in cmd_writes :
         /\ state_file' = FileAfterSave(state_file, w, outcome)
         /\ h_failed' = IF outcome = "written" THEN h_failed
                        ELSE <<[snapshot |-> w, file_before |-> state_file]>>
         /\ cmd_writes' = cmd_writes \ {w}
    /\ UNCHANGED << managed_vars, rc_local, env_vars, h_loads, h_perm_failed, monitoring_channels, seen_closure_ids, cache_vars, api_fetch_lock,
                    task, loaded, pc, cycle_locals, state_data, now, cmds, hist_vars >>

CommandSaveDone == CommandSaveEnds("written")
CommandSaveFails == \E outcome \in BlockingSaveFailures : CommandSaveEnds(outcome)

Next ==
    \/ StartTask
    \/ on_ready
    \/ BeforeLoopRead
    \/ LoadStateDone
    \/ Tick
    \/ AcquireLock
    \/ FetchDone
    \/ NextEvent
    \/ NextChannel
    \/ SendDone
    \/ AfterChannelLoop
    \/ Mark
    \/ EventExcept
    \/ StateUpdate
    \/ Prune
    \/ CycleSaveDone
    \/ CycleEnds
    \/ cog_unload
    \/ monitor_closures
    \/ unmonitor_closures
    \/ road_closure
    \/ RoadClosureAcquireLock
    \/ RoadClosureFetchDone
    \/ RoadClosureWarned
    \/ RoadClosureEnds
    \/ CommandSaveDone

\* The engine with a disk that takes every write.
Spec == Init /\ [][Next]_vars

\* The engine with a disk on which a write of the state file may fail.
NextIO == Next \/ CycleSaveFails \/ CommandSaveFails
SpecIO == Init /\ [][NextIO]_vars

\* ------------------------------------------------- load_state on its own
\* A managed closure as the state file may hold it
ManagedInFile == [id |-> 0, end |-> <<IntTs(20)>>]

\* The state files load_state may be given
LoadFiles == { FileMissing, FileEmpty, FilePartial, FileNotObject, FileBadChannels,
               FileBadManaged({1}, {IdA}), StateData({1}, {IdA}, <<>>),
               StateData({2}, {}, <<ManagedInFile>>) }

\* before_check_closures is about to call load_state: commands handled
\* since __init__ may have added channels and filled the cache.
InitLoad ==
    /\ Quiet
    /\ monitoring_channels \in SUBSET Channels
    /\ seen_closure_ids = {}
    /\ managed_closures = <<>>
    /\ cached_api_closures \in {<<>>, <<RecA>>, <<RecB>>}
    /\ state_file \in LoadFiles
    /\ task = "before_loop"
    /\ ready = TRUE
    /\ pc = "idle"
    /\ latest_closures = <<>>

SpecLoad == InitLoad /\ [][BeforeLoopRead \/ LoadStateDone]_vars

\* ------------------------------------------- UUID generation on its own
\* The lists of one or two records the API may answer with
Batches == { <<r>> : r \in Records } \cup { <<r1, r2>> : r1 \in Records, r2 \in Records }

\* check_closures has fetched a list and is about to generate the UUIDs
InitDerive ==
    /\ Quiet
    /\ monitoring_channels = {1}
    /\ seen_closure_ids \in { {}, {IdA} }
    /\ managed_closures = <<>>
    /\ cached_api_closures = <<>>
    /\ state_file = FileMissing
    /\ task = "running"
    /\ ready = TRUE
    /\ pc = "derive"
    /\ latest_closures \in Batches

\* events.py 1175-1230: the UUID generation loop over latest_closures
Derive ==
    /\ pc = "derive"
    /\ new_closures_to_notify' = NewClosuresToNotify(latest_closures, seen_closure_ids)
    /\ pc' = "derived"
    /\ UNCHANGED << managed_vars, rc_local, h_failed, env_vars, h_loads, h_perm_failed,
                    monitoring_channels, seen_closure_ids, cache_vars, api_fetch_lock,
                    state_file, cmd_writes, task, loaded, latest_closures,
                    processed_successfully_ids, ev, todo, cur_channel, channels_to_keep,
                    send_success_count, state_data, now, cmds, hist_vars >>

SpecDerive == InitDerive /\ [][Derive]_vars

\* -------------------------------------------------- managed closures
\* The managed closures a state file may hold: one that ends at 20, one
\* whose end is a text, one without an end
ManagedStrEnd == [id |-> -1, end |-> <<StrTs(30)>>]
ManagedNoEnd == [id |-> -1, end |-> <<>>]
ManagedFiles == { FileMissing,
                  StateData({1}, {IdA}, <<ManagedInFile, ManagedStrEnd>>),
                  StateData({1}, {}, <<ManagedNoEnd, ManagedInFile>>) }

\* The ids a moderator may type, and the end timestamps (897-905: ints)
ManagedIds == -1..MaxOps
EndInputs == {20, 25}

\* events.py 164-169: state_data holds the list object self.managed_closures
\* itself, not a copy.  An executor job that has not serialised it yet
\* writes what append (923) or item assignment (1112) put into the list
\* meanwhile: each pending state_data with the list `old` may hold `new`.
Racing(writes, old, new) ==
    LET sharing == { w \in writes : w.managed_closures = old }
    IN  { (writes \ S) \cup { [w EXCEPT !.managed_closures = new] : w \in S } :
            S \in SUBSET sharing }

\* What add, edit and remove of a managed closure leave alone
unmanaged_vars == << rc_local, h_failed, env_vars, h_loads, h_perm_failed,
                     monitoring_channels, seen_closure_ids, cache_vars, api_fetch_lock,
                     state_file, task, loaded, pc, cycle_locals, now, hist_vars >>

\* The list was changed in place to managed_closures': save_state is called
SaveAfterMutation ==
    /\ \E R \in Racing(cmd_writes, managed_closures, managed_closures') :
         cmd_writes' = R \cup {StateData(monitoring_channels, seen_closure_ids,
                                         managed_closures')}
    /\ \E R \in Racing({ state_data[i] : i \in DOMAIN state_data },
                       managed_closures, managed_closures') :
         state_data' = IF state_data = <<>> THEN <<>> ELSE <<CHOOSE w \in R : TRUE>>

\* events.py 893-935: addroadclosure, after its prompts: the closure gets a
\* uuid4 id, is appended, and save_state is called.
add_managed_road_closure ==
    /\ AtAwait
    /\ task # "cancelled"
    /\ now + cmds < MaxOps
    /\ cmds' = cmds + 1
    /\ \E end_ts_final \in EndInputs :
         managed_closures' = Append(managed_closures,
                                    [id |-> uuid4_count + 1, end |-> <<IntTs(end_ts_final)>>])
    /\ uuid4_count' = uuid4_count + 1
    /\ SaveAfterMutation
    /\ UNCHANGED << edit, unmanaged_vars >>

\* Mutant of WithoutId: when a closure has the id, the list is emptied.
WithoutId_EmptiesList(managed, closure_id_to_remove) ==
    IF \E i \in DOMAIN managed : managed[i].id = closure_id_to_remove
    THEN <<>>
    ELSE managed

\* events.py 712: the list without the closures of that id
WithoutId(managed, closure_id_to_remove) ==
    LET keep(c) == c.id # closure_id_to_remove
    IN  SelectSeq(managed, keep)

\* Mutant of remove_managed_road_closure: the removal also empties the seen ids.
remove_managed_road_closure_DropsSeen ==
    /\ AtAwait
    /\ task # "cancelled"
    /\ now + cmds < MaxOps
    /\ cmds' = cmds + 1
    /\ \E closure_id_to_remove \in ManagedIds :
         managed_closures' = WithoutId(managed_closures, closure_id_to_remove)
    /\ seen_closure_ids' = {}
    /\ cmd_writes' = IF Len(managed_closures') < Len(managed_closures)
                     THEN cmd_writes \cup {StateData(monitoring_channels, seen_closure_ids',
                                                     managed_closures')}
                     ELSE cmd_writes
    /\ UNCHANGED << uuid4_count, edit, state_data, rc_local, h_failed, env_vars, h_loads,
                    h_perm_failed, monitoring_channels, cache_vars, api_fetch_lock,
                    state_file, task, loaded, pc, cycle_locals, now, hist_vars >>

\* events.py 700-738: removeclosure, after its prompt: the list is replaced
\* by the one without the closures of that id, and saved when it got shorter.
remove_managed_road_closure ==
    /\ AtAwait
    /\ task # "cancelled"
    /\ now + cmds < MaxOps
    /\ cmds' = cmds + 1
    /\ \E closure_id_to_remove \in ManagedIds :
         managed_closures' = WithoutId(managed_closures, closure_id_to_remove)
    /\ cmd_writes' = IF Len(managed_closures') < Len(managed_closures)
                     THEN cmd_writes \cup {StateData(monitoring_channels, seen_closure_ids,
                                                     managed_closures')}
                     ELSE cmd_writes
    /\ UNCHANGED << uuid4_count, edit, state_data, unmanaged_vars >>

\* events.py 937-990: editroadclosure up to its prompts: the first closure
\* of that id is copied and its index is kept; without one the command ends.
edit_managed_road_closure ==
    /\ AtAwait
    /\ task # "cancelled"
    /\ now + cmds < MaxOps
    /\ cmds' = cmds + 1
    /\ edit = <<>>
    /\ managed_closures # <<>>
    /\ \E closure_id \in ManagedIds :
         LET found == { i \in DOMAIN managed_closures : managed_closures[i].id = closure_id }
         IN  IF found = {}
             THEN edit' = <<>>
             ELSE LET target_index == CHOOSE i \in found : \A j \in found : i <= j
                  IN  edit' = <<[closure_id |-> closure_id, target_index |-> target_index,
                                 edited_closure |-> managed_closures[target_index]]>>
    /\ UNCHANGED << managed_closures, uuid4_count, cmd_writes, state_data, unmanaged_vars >>

\* Mutant of ManagedAfterAnswer: the edits go to the entry of the list itself.
ManagedAfterAnswer_NoCopy(managed, target_index, edited_closure) ==
    IF target_index <= Len(managed)
    THEN [managed EXCEPT ![target_index] = edited_closure]
    ELSE managed

\* events.py 983: edited_closure is a deep copy of the entry, so assigning
\* to its fields (1058, 1101) leaves the list as it is.
ManagedAfterAnswer(managed, target_index, edited_closure) == managed

\* events.py 1070-1101: a timestamp prompt of editroadclosure is answered
\* with digits: the value is put into the copy.
EditAnswered ==
    /\ AtAwait
    /\ edit # <<>>
    /\ \E value \in EndInputs :
         /\ edit[1].edited_closure.end # <<IntTs(value)>>
         /\ edit' = <<[edit[1] EXCEPT !.edited_closure.end = <<IntTs(value)>>]>>
    /\ managed_closures' = ManagedAfterAnswer(managed_closures, edit[1].target_index,
                                              edit'[1].edited_closure)
    /\ UNCHANGED << uuid4_count, cmd_writes, state_data, cmds, unmanaged_vars >>

\* events.py 1109-1150: the prompts of editroadclosure are over: the edited
\* copy replaces the entry at the index kept at the start, when the list
\* still has that index, and save_state is called.
EditCompletes ==
    /\ AtAwait
    /\ edit # <<>>
    /\ LET target_index == edit[1].target_index
           edited_closure == edit[1].edited_closure
       IN  IF target_index <= Len(managed_closures)
           THEN /\ managed_closures' = [managed_closures EXCEPT ![target_index] = edited_closure]
                /\ SaveAfterMutation
           ELSE UNCHANGED << managed_closures, cmd_writes, state_data >>
    /\ edit' = <<>>
    /\ UNCHANGED << uuid4_count, cmds, unmanaged_vars >>

\* events.py 1040-1107: a prompt of editroadclosure is answered with
\* 'cancel' or times out: the copy is dropped.
EditCancelled ==
    /\ AtAwait
    /\ edit # <<>>
    /\ edit' = <<>>
    /\ UNCHANGED << managed_closures, uuid4_count, cmd_writes, state_data, cmds,
                    unmanaged_vars >>

\* The bot with a state file that may hold managed closures and with
\* moderators who add, edit and remove them.
InitManaged ==
    /\ Quiet
    /\ monitoring_channels = {}
    /\ seen_closure_ids = {}
    /\ managed_closures = <<>>
    /\ cached_api_closures = <<>>
    /\ state_file \in ManagedFiles
    /\ task = "unstarted"
    /\ ready = FALSE
    /\ pc = "idle"
    /\ latest_closures = <<>>

NextManaged ==
    \/ StartTask
    \/ on_ready
    \/ BeforeLoopRead
    \/ LoadStateDone
    \/ Tick
    \/ AcquireLock
    \/ FetchDone
    \/ NextEvent
    \/ NextChannel
    \/ SendDone
    \/ AfterChannelLoop
    \/ Mark
    \/ EventExcept
    \/ StateUpdate
    \/ Prune
    \/ CycleSaveDone
    \/ CycleEnds
    \/ road_closure
    \/ RoadClosureAcquireLock
    \/ RoadClosureFetchDone
    \/ RoadClosureWarned
    \/ RoadClosureEnds
    \/ add_managed_road_closure
    \/ remove_managed_road_closure
    \/ edit_managed_road_closure
    \/ EditAnswered
    \/ EditCompletes
    \/ EditCancelled
    \/ CommandSaveDone

SpecManaged == InitManaged /\ [][NextManaged]_vars

\* The steps the cog and its host take by themselves: everything but the
\* commands, which wait for a user, and StartTask, which no code of the cog
\* or of bot.py performs.
CogStep ==
    \/ on_ready
    \/ BeforeLoopRead
    \/ LoadStateDone
    \/ Tick
    \/ AcquireLock
    \/ FetchDone
    \/ NextEvent
    \/ NextChannel
    \/ SendDone
    \/ AfterChannelLoop
    \/ Mark
    \/ EventExcept
    \/ StateUpdate
    \/ Prune
    \/ CycleSaveDone
    \/ CycleEnds
    \/ RoadClosureAcquireLock
    \/ RoadClosureFetchDone
    \/ RoadClosureWarned
    \/ RoadClosureEnds
    \/ CommandSaveDone

\* The engine on an event loop that runs every step that stays enabled.
SpecFair == Spec /\ WF_vars(CogStep)

\* ------------------------------------------------------------- properties
\* The UUIDs of new_closures_to_notify of the running cycle
NewIds == { new_closures_to_notify[i][1] : i \in DOMAIN new_closures_to_notify }
\* The fetch of the running cycle has returned a list; that of the last
\* finished cycle had.
Fetched == h_fetch.kind # "none" /\ ~h_fetch.raised
PrevFetched == h_prev.fetch.kind # "none" /\ ~h_prev.fetch.raised
\* The last finished cycle sent every closure it found new to at least one
\* channel and added its UUID to seen_closure_ids.
PrevAllDelivered == h_prev.new \subseteq h_prev.sent /\ h_prev.new \subseteq h_prev.seen_after

\* C1: when two consecutive cycles fetch the same list and the first one
\* delivered every new closure to at least one channel and added its UUID
\* to seen_closure_ids, the second cycle finds no closure new and calls no
\* send.
C1_NoRenotification ==
    (Fetched /\ PrevFetched /\ latest_closures = h_prev.latest /\ PrevAllDelivered)
        => (new_closures_to_notify = <<>> /\ h_tried = {})

C1_Witness ==
    /\ pc = "return" /\ Fetched /\ PrevFetched
    /\ latest_closures = h_prev.latest
    /\ h_prev.new # {} /\ PrevAllDelivered
    /\ monitoring_channels # {}

\* C2: a new closure that no channel received in a cycle is not in
\* seen_closure_ids when the cycle returns; when the next cycle fetches the
\* same list the closure is new again, and the cycle enters the
\* notification block of every new closure.
C2_RetryAfterTotalFailure ==
    /\ (pc = "return" /\ Fetched) => (NewIds \ h_sent) \cap seen_closure_ids = {}
    /\ (Fetched /\ PrevFetched /\ latest_closures = h_prev.latest)
           => (h_prev.new \ h_prev.sent) \subseteq NewIds
    /\ (pc = "return" /\ Fetched) => ev = Len(new_closures_to_notify)

C2_Witness ==
    /\ pc = "return" /\ Fetched /\ PrevFetched
    /\ latest_closures = h_prev.latest
    /\ \E u \in h_prev.new \ h_prev.sent : u \in NewIds /\ u \in h_tried

\* C3: every UUID in seen_closure_ids was loaded from the state file or was
\* sent successfully to at least one channel.
C3_SeenOnlyDelivered == seen_closure_ids \subseteq (h_loaded \cup h_delivered)

C3_Witness ==
    /\ pc = "return"
    /\ seen_closure_ids \ h_loaded # {}
    /\ NewIds \ h_sent # {}

\* C4 (as claimed): when the cycle returns, every UUID that a channel
\* received in the cycle is in seen_closure_ids.
C4_SeenWhenAnySendSucceeded == pc = "return" => h_sent \subseteq seen_closure_ids

\* C5 (as claimed): when the notification block of a closure is left, every
\* channel of the copy of monitoring_channels has had its turn.
C5_EveryChannelReached == pc \in {"mark", "save_removed", "event_except"} => todo = {}

\* C6 (as claimed): at the end of a cycle whose fetch succeeded,
\* seen_closure_ids is a subset of the UUIDs of the fetched list.
C6_PrunedAfterEverySuccessfulFetch ==
    (pc = "return" /\ h_fetch.kind = "list")
        => seen_closure_ids \subseteq LatestGeneratedIds(h_fetch.value)

\* C6 (amended): at the end of a cycle whose fetched list has an item with a
\* UUID, seen_closure_ids is a subset of the UUIDs of that list; after an
\* empty list or a list without such an item it is what it was when the
\* cycle began.
C6_PrunedAfterFetchWithValidItem ==
    (pc = "return" /\ Fetched)
        => IF LatestGeneratedIds(latest_closures) # {}
           THEN seen_closure_ids \subseteq LatestGeneratedIds(latest_closures)
           ELSE seen_closure_ids = h_start

C6_Witness ==
    /\ pc = "return" /\ Fetched
    /\ LatestGeneratedIds(latest_closures) # {}
    /\ h_start \ LatestGeneratedIds(latest_closures) # {}

\* C7 (as claimed): a UUID that was in seen_closure_ids when a cycle's fetch
\* returned a list without it is new in the cycle whose fetched list has it
\* again.
C7_ReappearedIsNew == \A m \in h_reappeared : m[1] \in NewIds

\* C7 (amended): the same, when the list without the UUID had an item with
\* a UUID.
C7_ReappearedAfterPruneIsNew == \A m \in h_reappeared : m[2] => m[1] \in NewIds

C7_Witness ==
    /\ pc = "return"
    /\ \E m \in h_reappeared : m[2] /\ m[1] \in NewIds /\ m[1] \in h_sent

\* C8 (as claimed): when the HTTP request fails with a non-empty cache,
\* fetch_closures_from_api does not raise, returns the cached list and
\* leaves the cache as it was.
C8_FailedFetchReturnsCache ==
    (h_fetch.kind \in HttpExceptions /\ h_fetch.cache_before # <<>>)
        => (~h_fetch.raised /\ h_fetch.value = h_fetch.cache_before
            /\ cached_api_closures = h_fetch.cache_before)

\* C9 (as claimed): for JSON that is not a list the fetch returns the cached
\* list when there is one, and the empty list only with an empty cache.
C9_NonListReturnsCache ==
    h_fetch.kind = "nonlist" => h_fetch.value = h_fetch.cache_before

\* C9 (amended): for JSON that is not a list the fetch returns the empty
\* list whatever the cache holds, does not raise and leaves the cache as it
\* was.
C9_NonListReturnsEmpty ==
    h_fetch.kind = "nonlist"
        => (h_fetch.value = <<>> /\ ~h_fetch.raised
            /\ cached_api_closures = h_fetch.cache_before)

C9_Witness == h_fetch.kind = "nonlist" /\ h_fetch.cache_before # <<>>

\* C10 (as claimed): when the HTTP request fails with an empty cache, the
\* fetch returns the empty list and the cycle returns with
\* seen_closure_ids, monitoring_channels and the state file unchanged.
C10_FailedFetchEmptyCache ==
    [][ (pc = "http" /\ cached_api_closures = <<>> /\ h_fetch'.kind \in HttpExceptions)
            => (pc' = "return" /\ ~h_fetch'.raised /\ h_fetch'.value = <<>>
                /\ UNCHANGED << seen_closure_ids, monitoring_channels, state_file >>) ]_vars

\* C11 (as claimed): no exception leaves check_closures, and the task of
\* the loop is never ended by one.
C11_NoFailurePropagates == pc # "raise" /\ task # "failed"

\* C12 (as claimed): until load_state has set the state from the file, no
\* save_state call has been made and the state file is what the previous
\* run left.
C12_NoSaveBeforeLoad == h_loads = 0 => (cmd_writes = {} /\ state_file \in InitFiles)

\* C13: load_state completes at most once; whenever check_closures has been
\* invoked it has completed exactly once, and it is not called before the
\* bot is ready.
C13_LoadedOnceBeforeFirstCycle ==
    /\ h_loads <= 1
    /\ (now > 0 \/ pc # "idle") => h_loads = 1
    /\ (task \in {"loading", "running", "failed"} \/ h_loads > 0) => ready

C13_Witness == now >= 2 /\ pc = "send" /\ h_loads = 1

\* C14 (as claimed): once the bot is ready, the loop of check_closures is
\* eventually started.
C14_EventuallyStarted == ready ~> (task # "unstarted")

\* C15: an invocation of check_closures that finds monitoring_channels
\* empty goes straight to its return, and neither that step nor the return
\* takes the fetch lock or changes the cache, seen_closure_ids,
\* monitoring_channels, the state file or the pending writes.
C15_EmptySubscribersSkip ==
    [][ /\ (now' = now + 1 /\ monitoring_channels = {}) => pc' = "return"
        /\ ((now' = now + 1 /\ monitoring_channels = {})
                \/ (pc = "return" /\ h_fetch.kind = "none"))
             => UNCHANGED << cache_vars, api_fetch_lock, seen_closure_ids,
                             monitoring_channels, state_file, cmd_writes, state_data >>
      ]_vars

C15_Witness ==
    /\ pc = "return" /\ h_fetch.kind = "none"
    /\ monitoring_channels = {} /\ seen_closure_ids # {}

\* C16 (as claimed): when the dispatch of a closure has finished, no channel
\* that failed permanently in it (not resolvable, Forbidden, NotFound) is in
\* monitoring_channels, nor in the state file once no write is pending.
C16_PermanentFailureRemoved ==
    (pc = "mark" \/ (pc = "next_event" /\ ev > 0))
        => /\ h_perm_failed \cap monitoring_channels = {}
           /\ (state_file.kind = "state" /\ cmd_writes = {})
                  => h_perm_failed \cap state_file.monitoring_channels = {}

\* C17 (as claimed): a step of the poll cycle removes from
\* monitoring_channels only channels that failed permanently in the
\* dispatch of the current closure.
C17_OnlyPermanentFailuresRemoved ==
    [][ (pc = "next_channel" /\ pc' \in {"mark", "save_removed"})
            => (monitoring_channels \ monitoring_channels') \subseteq h_perm_failed ]_vars

\* C18: the HTTP requests of the poll cycle and of roadclosure are never in
\* flight together; whoever is in the request holds the one lock.
C18_OneFetchInFlight ==
    /\ ~(pc = "http" /\ rc = "http")
    /\ (pc = "http") <=> (api_fetch_lock = "check_closures")
    /\ (rc = "http") <=> (api_fetch_lock = "road_closure")

C18_Witness == pc = "wait_lock" /\ rc = "http" /\ api_fetch_lock = "road_closure"

\* C19: check_closures is invoked only when no invocation is running, also
\* when the previous one ran longer than the interval.
C19_NoOverlappingCycles == [][ now' # now => (pc = "idle" /\ pc' # "idle") ]_vars

C19_Witness == overdue /\ pc = "idle" /\ now >= 1 /\ now + cmds < MaxOps

\* The state file holds the in-memory state (a missing file the empty state)
FileMatchesMemory ==
    IF state_file.kind = "state"
    THEN /\ state_file.monitoring_channels = monitoring_channels
         /\ state_file.seen_closure_ids = seen_closure_ids
         /\ state_file.managed_closures = managed_closures
    ELSE /\ state_file.kind = "missing" /\ monitoring_channels = {}
         /\ seen_closure_ids = {} /\ managed_closures = <<>>

\* C20 (as claimed): after load_state, whenever no cycle, no command and no
\* write of the state file is in progress, the state file holds the
\* in-memory state.
C20_PersistedEqualsMemory ==
    (h_loads = 1 /\ pc = "idle" /\ rc = "idle" /\ cmd_writes = {} /\ state_data = <<>>)
        => FileMatchesMemory

\* The file is one load_state cannot process at all
FileUnusable(file) ==
    file.kind \in {"missing", "empty", "partial", "not_object", "bad_channels"}

\* C24 (as claimed): after load_state, with any file that is not a
\* well-formed state, monitoring_channels, seen_closure_ids and
\* managed_closures are empty.
C24_BadFileLoadsEmpty ==
    (h_loads = 1 /\ state_file.kind # "state")
        => (monitoring_channels = {} /\ seen_closure_ids = {} /\ managed_closures = <<>>)

\* C24 (amended): load_state ends (the loop goes on to run); with a missing,
\* empty or truncated file, JSON that is not an object or a channel entry
\* that is not a number the three are empty and the cache is reset; with a
\* 'managed_closures' that is not a list only managed_closures is empty and
\* the channels and seen ids are those of the file.
C24_LoadToleratesBadFile ==
    h_loads = 1 =>
        /\ task = "running"
        /\ FileUnusable(state_file)
               => /\ monitoring_channels = {} /\ seen_closure_ids = {}
                  /\ managed_closures = <<>> /\ cached_api_closures = <<>>
        /\ state_file.kind = "bad_managed"
               => /\ monitoring_channels = state_file.monitoring_channels
                  /\ seen_closure_ids = state_file.seen_closure_ids
                  /\ managed_closures = <<>>

C24_Witness ==
    /\ h_loads = 1 /\ state_file.kind = "partial"
    /\ monitoring_channels = {} /\ h_loaded = {}

\* The records of the fetched list that have an identity
WithId == { i \in DOMAIN latest_closures : GeneratedUuid(latest_closures[i]) # <<>> }
Uuid(i) == GeneratedUuid(latest_closures[i])[1]
SameFour(a, b) == a.status = b.status /\ a.type = b.type /\ a.timestamps = b.timestamps

Lacks(cl) ==
    \/ cl.status = <<>> \/ cl.type = <<>> \/ cl.timestamps = <<>>
    \/ (cl.timestamps # <<>>
          /\ (cl.timestamps[1].start = <<>> \/ cl.timestamps[1].end = <<>>))

\* The record has no usable timestamps: the object is missing, or start or
\* end is missing or not convertible to an integer
NoTimestamps(cl) ==
    \/ cl.timestamps = <<>>
    \/ (cl.timestamps # <<>>
          /\ \/ cl.timestamps[1].start = <<>> \/ cl.timestamps[1].end = <<>>
             \/ (cl.timestamps[1].start # <<>> /\ cl.timestamps[1].start[1].kind = "bad")
             \/ (cl.timestamps[1].end # <<>> /\ cl.timestamps[1].end[1].kind = "bad"))

Notified(cl) == \E k \in DOMAIN new_closures_to_notify : new_closures_to_notify[k][2] = cl

\* C26 (as claimed): a record that lacks status, start, end or type is not
\* among the closures to notify.
C26_IncompleteRecordSkipped ==
    pc = "derived" =>
        \A i \in DOMAIN latest_closures : Lacks(latest_closures[i]) => ~Notified(latest_closures[i])

\* C26 (amended): a record without usable timestamps has no identity and is
\* not among the closures to notify; every other record of the list, also
\* one without status or type, has an identity and is among the closures to
\* notify unless its identity is in seen_closure_ids.
C26_RecordWithoutTimestampsSkipped ==
    pc = "derived" =>
        \A i \in DOMAIN latest_closures :
            LET cl == latest_closures[i]
            IN  IF NoTimestamps(cl)
                THEN GeneratedUuid(cl) = <<>>
                     /\ ~Notified(cl)
                ELSE /\ GeneratedUuid(cl) # <<>>
                     /\ Uuid(i) \notin seen_closure_ids
                            => \E k \in DOMAIN new_closures_to_notify :
                                   new_closures_to_notify[k] = <<Uuid(i), cl>>

C26_Witness ==
    /\ pc = "derived"
    /\ Len(latest_closures) = 2
    /\ NoTimestamps(latest_closures[1])
    /\ latest_closures[2].status = <<>>
    /\ Len(new_closures_to_notify) = 1
    /\ new_closures_to_notify[1][2] = latest_closures[2]

\* C21 (as claimed): once the state file holds the identities the running
\* cycle has added to seen_closure_ids, it holds no identity that this
\* cycle's pruning removes.
C21_AdditionsPersistedWithPruning ==
    (/\ state_file.kind = "state"
     /\ pc \in {"prune", "save_prune", "return"}
     /\ processed_successfully_ids # {}
     /\ processed_successfully_ids \subseteq state_file.seen_closure_ids)
        => state_file.seen_closure_ids
              = PrunedSeen(state_file.seen_closure_ids, LatestGeneratedIds(latest_closures))

\* The in-memory state save_state persists
Memory == StateData(monitoring_channels, seen_closure_ids, managed_closures)

\* A write of the state file ends in a failure in this step
SaveFails ==
    \/ /\ pc \in {"save_removed", "save_seen", "save_prune"}
       /\ pc' \notin {pc, "cancelled"}
       /\ state_file' # state_data[1]
    \/ \E w \in cmd_writes : w \notin cmd_writes' /\ state_file' # w

\* C22: a step in which a write of the state file fails raises nothing and
\* leaves monitoring_channels, seen_closure_ids and managed_closures as they
\* were; every save_state hands the in-memory state at its call to the
\* write, failed writes before it or not (a write pending when the cycle is
\* cancelled stays pending); a write that lands leaves exactly the state it
\* was handed in the file.
C22_FailedSaveKeepsMemory ==
    [][ /\ SaveFails => (Memory' = Memory /\ pc' # "raise" /\ task' = task)
        /\ (state_data' # <<>> /\ state_data = <<>>) => state_data'[1] = Memory'
        /\ (cmd_writes' \ cmd_writes)
              \subseteq ({Memory'} \cup { state_data[i] : i \in DOMAIN state_data })
        /\ (state_file' # state_file /\ state_file'.kind = "state")
              => state_file' \in (cmd_writes \cup { state_data[i] : i \in DOMAIN state_data })
      ]_vars

\* A write failed when the file did not hold what it was to write, and the
\* file now holds the in-memory state with what that write was to add.
C22_Witness ==
    /\ h_failed # <<>>
    /\ h_failed[1].snapshot.seen_closure_ids # {}
    /\ h_failed[1].file_before.kind = "missing"
    /\ state_file.kind = "state"
    /\ h_failed[1].snapshot.seen_closure_ids \subseteq state_file.seen_closure_ids
    /\ FileMatchesMemory
    /\ pc = "idle" /\ cmd_writes = {}

\* C23 (as claimed): the state file is never left empty or partly written.
C23_FileNeverPartial == state_file.kind # "partial"

\* C30 (as claimed): when roadclosure displays its list, the warning was
\* sent exactly when the command attempted a fetch and that fetch failed.
C30_WarningIffFetchFailed ==
    rc = "show" => (rc_local[1].warned <=> (rc_local[1].attempted /\ rc_local[1].failed))

\* The managed closure is in the list roadclosure displays
Displayed(c, local) ==
    \E k \in DOMAIN local.active_managed_closures : local.active_managed_closures[k] = c
EndsAfter(c, t) == c.end # <<>> /\ c.end[1].kind = "int" /\ c.end[1].v > t

\* C27: when roadclosure puts its list together, a managed closure is in it
\* iff its end is an integer greater than the current time, and no step of
\* roadclosure changes managed_closures.
C27_ActiveManagedShown ==
    [][ rc' # rc =>
          /\ managed_closures' = managed_closures
          /\ rc' = "show" =>
                \A i \in DOMAIN managed_closures :
                    Displayed(managed_closures[i], rc_local'[1])
                        <=> EndsAfter(managed_closures[i], rc_local'[1].current_timestamp)
      ]_vars

C27_Witness ==
    /\ rc = "show"
    /\ rc_local[1].current_timestamp = 20
    /\ Len(rc_local[1].active_managed_closures) = 1
    /\ rc_local[1].active_managed_closures[1].end = <<IntTs(25)>>
    /\ \E i \in DOMAIN managed_closures : managed_closures[i].end = <<IntTs(20)>>
    /\ \E i \in DOMAIN managed_closures : managed_closures[i].end = <<StrTs(30)>>

\* C28: a step that adds, edits or removes a managed closure leaves
\* seen_closure_ids as it was; a step of the poll cycle leaves
\* managed_closures as it was, and the closures the cycle notifies are
\* those the fetched list and seen_closure_ids give (load_state, which sets
\* both from the file, aside).
C28_ManagedAndSeenIndependent ==
    [][ h_loads' = h_loads =>
          /\ (managed_closures' # managed_closures \/ edit' # edit \/ uuid4_count' # uuid4_count)
                => seen_closure_ids' = seen_closure_ids
          /\ (pc' # pc \/ seen_closure_ids' # seen_closure_ids)
                => managed_closures' = managed_closures
          /\ \/ new_closures_to_notify' = new_closures_to_notify
             \/ new_closures_to_notify'
                   = NewClosuresToNotify(latest_closures', seen_closure_ids)
      ]_vars

\* A managed closure was added, one was removed, and a cycle has added an
\* identity to seen_closure_ids.
C28_Witness ==
    /\ uuid4_count >= 1
    /\ \A i \in DOMAIN managed_closures : managed_closures[i].id # 0
    /\ Len(managed_closures) = 2
    /\ \E i \in DOMAIN managed_closures : managed_closures[i].id = -1
    /\ h_loads = 1 /\ h_loaded = {}
    /\ seen_closure_ids # {}

\* C29 (as claimed): when the cog was unloaded while a cycle was in
\* flight, every identity that cycle delivered is in seen_closure_ids.
C29_UnloadLetsCycleFinish == pc = "cancelled" => h_sent \subseteq seen_closure_ids

CycleFetchEnds == pc = "http" /\ pc' \notin {"http", "cancelled"}
RcFetchEnds == rc = "http" /\ rc' # "http"

\* What a fetch that ends in this step does to the cache: a list from the
\* upstream becomes the cache and the fetch time is set; every other outcome
\* leaves both as they were.
FetchEffectOnCache ==
    /\ (CycleFetchEnds /\ h_fetch'.kind = "list")
          => (cached_api_closures' = h_fetch'.value /\ last_api_fetch_time' = <<now>>)
    /\ (CycleFetchEnds /\ h_fetch'.kind # "list") => UNCHANGED cache_vars
    /\ (RcFetchEnds /\ ~rc_local'[1].failed)
          => /\ last_api_fetch_time' = <<now>>
             /\ rc' = "show" => cached_api_closures' = rc_local'[1].closures_from_api
             /\ rc' = "warn" => cached_api_closures' = <<>>
    /\ (RcFetchEnds /\ rc_local'[1].failed) => UNCHANGED cache_vars

\* C32 (as claimed): a successful fetch of a list sets the cache and the
\* fetch time, a failed fetch leaves both, and nothing else changes them.
C32_CacheChangesOnlyOnFetch ==
    [][ /\ FetchEffectOnCache
        /\ cache_vars' # cache_vars
              => \/ CycleFetchEnds /\ h_fetch'.kind = "list"
                 \/ RcFetchEnds /\ ~rc_local'[1].failed
      ]_vars

\* C32 (amended): a successful fetch of a list sets the cache and the fetch
\* time, a failed fetch leaves both, and the only other change is that of
\* load_state, which empties both when the state file is missing, empty or
\* cannot be processed.
C32_CacheChangesOnFetchOrLoad ==
    [][ /\ FetchEffectOnCache
        /\ cache_vars' # cache_vars
              => \/ CycleFetchEnds /\ h_fetch'.kind = "list"
                 \/ RcFetchEnds /\ ~rc_local'[1].failed
                 \/ /\ h_loads' # h_loads
                    /\ FileUnusable(loaded[1])
                    /\ cached_api_closures' = <<>> /\ last_api_fetch_time' = <<>>
      ]_vars

\* A fetch of the cycle failed while a list was cached, and the cache and
\* the fetch time are what they were.
C32_Witness ==
    /\ h_fetch.kind \in HttpExceptions \cup {"nonlist"}
    /\ h_fetch.cache_before # <<>>
    /\ cached_api_closures = h_fetch.cache_before
    /\ last_api_fetch_time # <<>>

\* No save_state is called in this step
NoSave == cmd_writes' = cmd_writes /\ state_data' = state_data

\* C33: a step of editroadclosure other than its completion (the start,
\* with a known or an unknown id, an answer to a prompt, a cancel or a
\* timeout) leaves managed_closures as it was and calls no save_state;
\* while an edit is open the entry changes only when it completes or
\* another command changes the list.
C33_UnfinishedEditChangesNothing ==
    [][ /\ (edit_managed_road_closure \/ EditAnswered \/ EditCancelled)
              => (managed_closures' = managed_closures /\ NoSave)
        /\ (managed_closures' # managed_closures /\ h_loads' = h_loads)
              => (EditCompletes \/ add_managed_road_closure \/ remove_managed_road_closure)
      ]_vars

\* An edit is open, its copy has a new end, and the entry of the list has
\* the old one; nothing is being saved.
C33_Witness ==
    /\ edit # <<>>
    /\ edit[1].target_index <= Len(managed_closures)
    /\ managed_closures[edit[1].target_index].id = edit[1].closure_id
    /\ managed_closures[edit[1].target_index].end = <<IntTs(20)>>
    /\ edit[1].edited_closure.end = <<IntTs(25)>>
    /\ cmd_writes = {} /\ state_data = <<>>

\* The indices of the closures of `managed` whose id is not `id`
KeptIndices(managed, id) == { i \in DOMAIN managed : managed[i].id # id }

\* C34: a step of removeclosure with an id leaves the closures with another
\* id, in their order, and no closure with that id; when the list got
\* shorter the new state is handed to save_state, and otherwise the list is
\* as it was and no save_state is called.
C34_RemoveRemovesExactlyTheId ==
    [][ remove_managed_road_closure =>
          \E id \in ManagedIds :
             LET kept == KeptIndices(managed_closures, id)
             IN  /\ Len(managed_closures') = Cardinality(kept)
                 /\ \A i \in kept :
                       managed_closures'[Cardinality({ j \in kept : j <= i })]
                           = managed_closures[i]
                 /\ IF kept # DOMAIN managed_closures
                    THEN /\ StateData(monitoring_channels, seen_closure_ids,
                                      managed_closures') \in cmd_writes'
                         /\ state_data' = state_data
                    ELSE managed_closures' = managed_closures /\ NoSave
      ]_vars

\* The closure in the middle of three was removed: the other two are
\* there, in their order, and the save is under way.
C34_Witness ==
    /\ h_loads = 1 /\ uuid4_count = 1 /\ cmds = 2
    /\ Len(managed_closures) = 2
    /\ managed_closures[1] = ManagedInFile
    /\ managed_closures[2].id = 1
    /\ StateData(monitoring_channels, seen_closure_ids, managed_closures) \in cmd_writes

\* C38 (as claimed): the step that completes an editroadclosure leaves every
\* closure with another id than the one given where and as it was, and puts
\* no id into the list that was not in it.
C38_EditChangesOnlyItsClosure ==
    [][ EditCompletes =>
          /\ Len(managed_closures') = Len(managed_closures)
          /\ \A i \in DOMAIN managed_closures :
                managed_closures[i].id # edit[1].closure_id
                    => managed_closures'[i] = managed_closures[i]
          /\ \A i \in DOMAIN managed_closures' :
                \E j \in DOMAIN managed_closures :
                    managed_closures[j].id = managed_closures'[i].id
      ]_vars

\* ---------------------------------------------------------------- C37
\* C37: a channel that is not in monitoring_channels enters it only by a
\* monitorclosures command (or by the load of the state file): no step of
\* the poll cycle puts back a channel that unmonitorclosures has removed
\* while the cycle was suspended in a send.
C37_UnmonitoredStaysAbsent ==
    [][ (monitoring_channels' \ monitoring_channels # {} /\ h_loads' = h_loads)
            => monitor_closures ]_vars


\* ---------------------------------------------------------------- C39
\* C39: at any time at most one write of the state file is in progress:
\* the executor holds at most one job of _blocking_save_state, counting
\* the jobs of the commands and the job of the poll cycle.
C39_OneWriteInProgress == Cardinality(cmd_writes) + Len(state_data) <= 1


\* ---------------------------------------------------------------- C36
\* C36: within one cycle a subscriber receives at most one notification per
\* identity: a send that succeeds goes to a channel that has not received
\* a notification of the same UUID earlier in this cycle.
C36_OneNotificationPerIdentity ==
    [][ (pc = "send" /\ send_success_count' = send_success_count + 1)
            => <<cur_channel, generated_uuid>> \notin h_received ]_vars


\* ------------------------------- save_state, then load_state, on their own
\* A number and a string as json.dump writes them and json.loads reads them
JsonNumber(n) == [t |-> "number", v |-> n]
JsonString(s) == [t |-> "string", v |-> s]

\* events.py 165-166: list(a_set): the elements of the set, each once, in
\* the order the set happens to iterate in
ListOf(S) ==
    { l \in [1..Cardinality(S) -> S] : \A e \in S : \E i \in 1..Cardinality(S) : l[i] = e }

\* events.py 189: json.dump(state_data, f): the channel ids are written as
\* numbers and the seen ids as strings, each list in its order; the managed
\* closures hold only strings, ints, None and dicts with string keys
\* (909-921, 1056-1101), which are written as they are.
JsonDump(data) ==
    [kind |-> "json",
     monitoring_channels |->
         [i \in 1..Len(data.monitoring_channels) |-> JsonNumber(data.monitoring_channels[i])],
     seen_closure_ids |->
         [i \in 1..Len(data.seen_closure_ids) |-> JsonString(data.seen_closure_ids[i])],
     managed_closures |-> data.managed_closures]

\* Mutant of RawChannels: the first entry of the list is left out.
RawChannels_SkipsFirst(raw_channels) ==
    { raw_channels[i].v : i \in (1..Len(raw_channels)) \ {1} }

\* events.py 108-109: set(int(cid) for cid in raw_channels)
RawChannels(raw_channels) == { raw_channels[i].v : i \in 1..Len(raw_channels) }

\* events.py 112-113: set(str(id_val) for id_val in raw_api_ids)
RawApiIds(raw_api_ids) ==
    { IF raw_api_ids[i].t = "string" THEN raw_api_ids[i].v ELSE ToString(raw_api_ids[i].v) :
        i \in 1..Len(raw_api_ids) }

\* events.py 107-122 and 155: json.loads(content) and the conversions of
\* load_state: int() raises for an entry that is not a number
JsonLoaded(file) ==
    IF file.kind # "json" THEN file
    ELSE IF \E i \in 1..Len(file.monitoring_channels) :
                file.monitoring_channels[i].t # "number"
    THEN FileBadChannels
    ELSE StateData(RawChannels(file.monitoring_channels),
                   RawApiIds(file.seen_closure_ids), file.managed_closures)

\* The state a save_state call may find in memory
InitRound ==
    /\ Quiet
    /\ monitoring_channels \in SUBSET Channels
    /\ seen_closure_ids \in SUBSET {IdA, GeneratedUuid(RecB)[1]}
    /\ managed_closures \in { <<>>, <<ManagedInFile>>, <<ManagedNoEnd, ManagedInFile>>,
                              <<ManagedInFile, ManagedStrEnd>> }
    /\ cached_api_closures = <<>>
    /\ state_file \in { FileMissing, StateData({}, {IdA}, <<>>) }
    /\ task = "running"
    /\ ready = TRUE
    /\ pc = "round_start"
    /\ latest_closures = <<>>

\* events.py 160-178: save_state builds state_data and hands the write to
\* the executor
save_state ==
    /\ pc = "round_start"
    /\ \E channels \in ListOf(monitoring_channels), ids \in ListOf(seen_closure_ids) :
         state_data' = <<[monitoring_channels |-> channels, seen_closure_ids |-> ids,
                          managed_closures |-> managed_closures]>>
    /\ pc' = "round_saving"
    /\ UNCHANGED << managed_vars, rc_local, h_failed, env_vars, h_loads, h_perm_failed,
                    monitoring_channels, seen_closure_ids, cache_vars, api_fetch_lock,
                    state_file, cmd_writes, task, loaded, cycle_locals, now, cmds,
                    hist_vars >>

\* events.py 185-192 and 179-181: the write ends; a failure is logged
blocking_save_state ==
    /\ pc = "round_saving"
    /\ \E outcome \in {"written"} \cup BlockingSaveFailures :
         /\ state_file' = FileAfterSave(state_file, JsonDump(state_data[1]), outcome)
         /\ h_failed' = IF outcome = "written" THEN h_failed
                        ELSE <<[snapshot |-> state_data[1], file_before |-> state_file]>>
    /\ state_data' = <<>>
    /\ pc' = "round_saved"
    /\ UNCHANGED << managed_vars, rc_local, env_vars, h_loads, h_perm_failed,
                    monitoring_channels, seen_closure_ids, cache_vars, api_fetch_lock,
                    cmd_writes, task, loaded, cycle_locals, now, cmds, hist_vars >>

\* events.py 90-95 and 144-157: load_state reads the file in the executor
blocking_load_state ==
    /\ pc = "round_saved"
    /\ loaded' = <<JsonLoaded(state_file)>>
    /\ pc' = "round_loading"
    /\ UNCHANGED << managed_vars, rc_local, h_failed, env_vars, h_loads, h_perm_failed,
                    monitoring_channels, seen_closure_ids, cache_vars, api_fetch_lock,
                    state_file, cmd_writes, task, cycle_locals, state_data, now, cmds,
                    hist_vars >>

\* events.py 97-140: load_state sets the state from what was read
load_state ==
    /\ pc = "round_loading"
    /\ LET st == LoadedState(loaded[1], monitoring_channels, seen_closure_ids,
                             managed_closures)
       IN  /\ monitoring_channels' = st.monitoring_channels
           /\ seen_closure_ids' = st.seen_closure_ids
           /\ managed_closures' = st.managed_closures
           /\ cached_api_closures' = IF st.reset_cache THEN <<>> ELSE cached_api_closures
           /\ last_api_fetch_time' = IF st.reset_cache THEN <<>> ELSE last_api_fetch_time
    /\ loaded' = <<>>
    /\ h_loads' = h_loads + 1
    /\ pc' = "round_done"
    /\ UNCHANGED << uuid4_count, edit, rc_local, h_failed, env_vars, h_perm_failed,
                    api_fetch_lock, state_file, cmd_writes, task, cycle_locals, state_data,
                    now, cmds, hist_vars >>

SpecRound ==
    InitRound /\ [][save_state \/ blocking_save_state \/ blocking_load_state \/ load_state]_vars

\* ---------------------------------------------------------------- C40
\* C40: a load_state that follows a save_state whose write succeeded, with
\* no mutation in between, leaves monitoring_channels, seen_closure_ids and
\* managed_closures as they were in memory at the save.
C40_SaveThenLoadRestores ==
    [][ (pc = "round_loading" /\ pc' = "round_done" /\ h_failed = <<>>)
            => /\ monitoring_channels' = monitoring_channels
               /\ seen_closure_ids' = seen_closure_ids
               /\ managed_closures' = managed_closures ]_vars

\* A state of two channels, two seen ids and two managed closures has been
\* saved with the channels listed as 2, 1 and loaded again.
C40_Witness ==
    /\ pc = "round_done"
    /\ h_failed = <<>>
    /\ state_file.kind = "json"
    /\ state_file.monitoring_channels = <<JsonNumber(2), JsonNumber(1)>>
    /\ monitoring_channels = {1, 2}
    /\ Cardinality(seen_closure_ids) = 2
    /\ Len(managed_closures) = 2


\* ----------------------------------------- the poll cycle without an end
\* The loop has been started and keeps invoking check_closures; no command
\* is used and the clock, which only the roadclosure command reads, stands
\* still.  The API answers every request with a list that holds RecA, and
\* the channel NumChannels can always be resolved, passes the permission
\* check and accepts every send; the other channels behave in any way.
InitLive ==
    /\ Quiet
    /\ monitoring_channels = Channels
    /\ seen_closure_ids = {}
    /\ managed_closures = <<>>
    /\ cached_api_closures = <<>>
    /\ state_file = StateData(Channels, {}, <<>>)
    /\ task = "running"
    /\ ready = TRUE
    /\ pc = "idle"
    /\ latest_closures = <<>>

LiveTick == Invocation /\ now' = now

LiveFetchDone ==
    /\ FetchDone
    /\ h_fetch'.kind = "list"
    /\ \E i \in DOMAIN h_fetch'.value : h_fetch'.value[i] = RecA

LiveNextChannel ==
    /\ NextChannel
    /\ (NumChannels \in todo \ todo') => pc' = "send"

LiveSendDone ==
    /\ SendDone
    /\ cur_channel = NumChannels => send_success_count' = send_success_count + 1

NextLive ==
    \/ LiveTick
    \/ LiveFetchDone
    \/ NextEvent
    \/ LiveNextChannel
    \/ LiveSendDone
    \/ AfterChannelLoop
    \/ Mark
    \/ EventExcept
    \/ StateUpdate
    \/ Prune
    \/ CycleSaveDone
    \/ CycleEnds

\* The event loop runs every step that stays enabled, and the timer of the
\* loop fires after every invocation.
SpecLive == InitLive /\ [][NextLive]_vars /\ WF_vars(NextLive)

\* ---------------------------------------------------------------- C35
\* C35: an event that stays in the feed while a subscriber can be resolved
\* and accepts sends is eventually delivered to a subscriber, and its UUID
\* is eventually in seen_closure_ids, when the loop keeps invoking the
\* cycle and the fetches succeed.
C35_EventEventuallyDelivered == <>(IdA \in h_delivered /\ IdA \in seen_closure_ids)

====
